---------------------------- MODULE Spec2Model ----------------------------
(***************************************************************************)
(* A model of PromptKeep (mtnlark/promptkeep): a command-line tool that    *)
(* keeps prompts as Markdown files with YAML front matter under            *)
(* <vault>/Prompts.  The model covers the vault locator of utils.py and    *)
(* the init, add, pick and edit commands of cli.py, over a filesystem of   *)
(* three candidate vault locations.  Text (file contents, titles, tags,    *)
(* file names) is a sequence of one-character strings, so that the         *)
(* string operations of the source are modelled by what they do.           *)
(***************************************************************************)
EXTENDS Integers, Sequences, FiniteSets, TLC

(***************************************************************************)
(* Bounds of the model.                                                    *)
(***************************************************************************)
\* the clock takes the values 0..MaxTime (seconds)
MaxTime == 1
\* a run of add is taken only if it leaves at most MaxDocs documents in Prompts
MaxDocs == 2

(***************************************************************************)
(* Python string operations, on sequences of characters.                   *)
(***************************************************************************)
\* str.strip() without argument removes these
Whitespace == {" ", "\n", "\t", "\r"}

\* s.strip(chars): drop leading and trailing characters that are in cs
StripChars(s, cs) ==
    LET first == {i \in 1..Len(s) :
                    s[i] \notin cs /\ \A j \in 1..(i - 1) : s[j] \in cs}
        last_ == {i \in 1..Len(s) :
                    s[i] \notin cs /\ \A j \in (i + 1)..Len(s) : s[j] \in cs}
    IN  IF first = {}
        THEN <<>>
        ELSE SubSeq(s, CHOOSE i \in first : TRUE, CHOOSE i \in last_ : TRUE)

strip(s) == StripChars(s, Whitespace)

startswith(s, p) == Len(s) >= Len(p) /\ SubSeq(s, 1, Len(p)) = p

endswith(s, p) == Len(s) >= Len(p) /\ SubSeq(s, Len(s) - Len(p) + 1, Len(s)) = p

\* the least element of a set of numbers
Min(S) == CHOOSE x \in S : \A y \in S : x <= y

\* s.find(sep, i): the first position from i on at which sep (not empty)
\* occurs in s, 0 if there is none
find(s, sep, i) ==
    LET occ == {k \in i..(Len(s) - Len(sep) + 1) :
                    s[k] = sep[1] /\ SubSeq(s, k, k + Len(sep) - 1) = sep}
    IN  IF occ = {} THEN 0 ELSE Min(occ)

\* sub in s
contains(s, sub) == find(s, sub, 1) # 0

\* s.split(sep, maxsplit); maxsplit = -1 splits at every occurrence
RECURSIVE split(_, _, _)
split(s, sep, maxsplit) ==
    LET i == find(s, sep, 1)
    IN  IF maxsplit = 0 \/ i = 0
        THEN <<s>>
        ELSE <<SubSeq(s, 1, i - 1)>> \o
             split(SubSeq(s, i + Len(sep), Len(s)), sep, maxsplit - 1)

\* s.splitlines(): the lines of s, without a last empty line; nl holds the
\* positions of the line ends from start on
RECURSIVE lines_from(_, _, _)
lines_from(s, start, nl) ==
    IF start > Len(s)
    THEN <<>>
    ELSE IF nl = {}
         THEN <<SubSeq(s, start, Len(s))>>
         ELSE LET i == Min(nl)
              IN  <<SubSeq(s, start, i - 1)>> \o lines_from(s, i + 1, nl \ {i})
splitlines(s) == lines_from(s, 1, {i \in 1..Len(s) : s[i] = "\n"})

\* sep.join(parts)
RECURSIVE join(_, _)
join(sep, parts) ==
    IF parts = <<>> THEN <<>>
    ELSE IF Len(parts) = 1 THEN parts[1]
    ELSE parts[1] \o sep \o join(sep, Tail(parts))

UpperCase ==
    <<"A","B","C","D","E","F","G","H","I","J","K","L","M",
      "N","O","P","Q","R","S","T","U","V","W","X","Y","Z">>
LowerCase ==
    <<"a","b","c","d","e","f","g","h","i","j","k","l","m",
      "n","o","p","q","r","s","t","u","v","w","x","y","z">>

\* str.lower()
lower(s) ==
    [i \in 1..Len(s) |->
        IF \E k \in 1..Len(UpperCase) : UpperCase[k] = s[i]
        THEN LowerCase[CHOOSE k \in 1..Len(UpperCase) : UpperCase[k] = s[i]]
        ELSE s[i]]

\* the set of the elements of seq
Range(seq) == {seq[i] : i \in 1..Len(seq)}

\* a sequence that lists the elements of the finite set S once each
SetToSeq(S) ==
    CHOOSE f \in [1..Cardinality(S) -> S] : \A x \in S : \E i \in DOMAIN f : f[i] = x

(***************************************************************************)
(* utils.py: sanitize_filename                                             *)
(***************************************************************************)
\* invalid_chars = r'[<>:"/\\|?*]'
InvalidChars == {"<", ">", ":", "\"", "/", "\\", "|", "?", "*"}

\* the maximum filename length enforced by sanitize_filename
MaxFilenameLen == 100

\* re.sub(r'-+', '-', s) on s[lo..hi]: a hyphen that follows a hyphen is dropped
RECURSIVE collapse_hyphens(_, _, _)
collapse_hyphens(s, lo, hi) ==
    IF lo > hi THEN <<>>
    ELSE IF lo = hi
         THEN IF s[lo] = "-" /\ lo > 1 /\ s[lo - 1] = "-" THEN <<>> ELSE <<s[lo]>>
         ELSE LET mid == (lo + hi) \div 2
              IN  collapse_hyphens(s, lo, mid) \o collapse_hyphens(s, mid + 1, hi)

\* variant of sanitize_filename without the length limit
sanitize_filename_unlimited(title) ==
    LET lowered   == lower(title)
        replaced  == [i \in 1..Len(lowered) |->
                        IF lowered[i] \in InvalidChars \/ lowered[i] = " "
                        THEN "-" ELSE lowered[i]]
        collapsed == collapse_hyphens(replaced, 1, Len(replaced))
    IN  StripChars(collapsed, {"-"})

sanitize_filename(title) ==
    LET lowered   == lower(title)
        replaced  == [i \in 1..Len(lowered) |->
                        IF lowered[i] \in InvalidChars \/ lowered[i] = " "
                        THEN "-" ELSE lowered[i]]
        collapsed == collapse_hyphens(replaced, 1, Len(replaced))
        trimmed   == StripChars(collapsed, {"-"})
    IN  IF Len(trimmed) > MaxFilenameLen
        THEN SubSeq(trimmed, 1, MaxFilenameLen)
        ELSE trimmed

(***************************************************************************)
(* Paths and the filesystem.  A path is a sequence of components; an       *)
(* absolute path starts with "/", a path that starts with "~" is relative  *)
(* to the home directory.                                                  *)
(***************************************************************************)
HomeDir == <<"/", "home", "user">>
WorkDir == <<"/", "cwd">>

\* Path.expanduser()
expanduser(p) == IF p # <<>> /\ p[1] = "~" THEN HomeDir \o Tail(p) ELSE p

\* Path.absolute()
absolute(p) == IF p # <<>> /\ p[1] = "/" THEN p ELSE WorkDir \o p

\* the default of init's argument and of find_vault_path
DefaultVault == <<"~", "PromptVault">>
\* a relative path given on the command line
LocalVault == <<"vault">>
\* the value of PROMPTKEEP_VAULT, when it is set
EnvVault == <<"/", "env", "vault">>

\* the locations the model's filesystem keeps track of
Locations == {absolute(expanduser(p)) : p \in {DefaultVault, LocalVault, EnvVault}}

\* find_vault_path returning None
NoPath == <<>>

\* the template written by create_prompt_template
template_content ==
    <<"-","-","-","\n">> \o
    <<"t","i","t","l","e",":"," ","\"","E","x","a","m","p","l","e"," ","P","r","o","m","p","t","\"","\n">> \o
    <<"d","e","s","c","r","i","p","t","i","o","n",":"," ","\"","A"," ","t","e","m","p","l","a","t","e"," ","s","h","o","w","i","n","g"," ","t","h","e"," ","p","r","o","m","p","t"," ","f","o","r","m","a","t","\"","\n">> \o
    <<"t","a","g","s",":"," ","[","\"","t","e","m","p","l","a","t","e","\"",","," ","\"","e","x","a","m","p","l","e","\"","]","\n">> \o
    <<"-","-","-","\n">> \o
    <<"\n">> \o
    <<"T","h","i","s"," ","i","s"," ","a","n"," ","e","x","a","m","p","l","e"," ","p","r","o","m","p","t","."," ","T","h","e"," ","t","e","x","t"," ","a","b","o","v","e"," ","t","h","e"," ","f","i","r","s","t"," ","'","-","-","-","'"," ","i","s"," ","Y","A","M","L"," ","f","r","o","n","t"," ","m","a","t","t","e","r"," ","t","h","a","t","\n">> \o
    <<"c","o","n","t","a","i","n","s"," ","m","e","t","a","d","a","t","a"," ","a","b","o","u","t"," ","y","o","u","r"," ","p","r","o","m","p","t","."," ","T","h","e"," ","t","e","x","t"," ","b","e","l","o","w"," ","i","s"," ","t","h","e"," ","a","c","t","u","a","l"," ","p","r","o","m","p","t"," ","c","o","n","t","e","n","t",".","\n">> \o
    <<"\n">> \o
    <<"Y","o","u"," ","c","a","n"," ","u","s","e"," ","t","h","i","s"," ","t","e","m","p","l","a","t","e"," ","t","o"," ","c","r","e","a","t","e"," ","y","o","u","r"," ","o","w","n"," ","p","r","o","m","p","t","s","."," ","J","u","s","t"," ","c","o","p","y"," ","t","h","i","s"," ","f","i","l","e"," ","a","n","d","\n">> \o
    <<"m","o","d","i","f","y"," ","t","h","e"," ","Y","A","M","L"," ","f","r","o","n","t"," ","m","a","t","t","e","r"," ","a","n","d"," ","p","r","o","m","p","t"," ","c","o","n","t","e","n","t"," ","a","s"," ","n","e","e","d","e","d",".","\n">>

example_prompt_md == <<"e","x","a","m","p","l","e","_","p","r","o","m","p","t",".","m","d">>

NoDocs == [n \in {} |-> <<>>]

\* what is at a location: nothing, a regular file, or a directory that may
\* hold a file test.txt (stray) and an entry Prompts, itself nothing, a file
\* or a directory of documents (docs: file name -> content)
MissingNode == [kind |-> "missing", stray |-> FALSE, prompts |-> "missing", docs |-> NoDocs]
FileNode    == [kind |-> "file",    stray |-> FALSE, prompts |-> "missing", docs |-> NoDocs]
DirNode(stray, prompts, docs) ==
    [kind |-> "dir", stray |-> stray, prompts |-> prompts, docs |-> docs]

\* Path.exists()
exists(fsys, p) == p \in DOMAIN fsys /\ fsys[p].kind # "missing"
\* (p / "Prompts").exists()
prompts_exists(fsys, p) ==
    p \in DOMAIN fsys /\ fsys[p].kind = "dir" /\ fsys[p].prompts # "missing"
\* (p / "Prompts").is_dir()
prompts_is_dir(fsys, p) ==
    p \in DOMAIN fsys /\ fsys[p].kind = "dir" /\ fsys[p].prompts = "dir"

(***************************************************************************)
(* utils.py: the vault locator                                             *)
(***************************************************************************)
\* an optional string argument: None, or a path (possibly the empty string)
None == [given |-> FALSE, path |-> <<>>]
Some(p) == [given |-> TRUE, path |-> p]
\* Python's truth value of an Optional[str]
Truthy(opt) == opt.given /\ opt.path # <<>>

find_vault_path(fsys, env) ==
    LET path         == absolute(expanduser(env.path))
        default_path == absolute(expanduser(DefaultVault))
    IN  IF Truthy(env) /\ exists(fsys, path) /\ prompts_exists(fsys, path)
        THEN path
        ELSE IF exists(fsys, default_path) /\ prompts_exists(fsys, default_path)
             THEN default_path
             ELSE NoPath

\* variant of validate_vault_path that looks for another vault when the given
\* path is not one
validate_vault_path_fallback(fsys, env, vault_path) ==
    LET given    == absolute(expanduser(vault_path.path))
        expanded_vault ==
            IF Truthy(vault_path) /\ prompts_is_dir(fsys, given)
            THEN given
            ELSE find_vault_path(fsys, env)
    IN  IF expanded_vault = NoPath
        THEN [ok |-> FALSE, path |-> NoPath]
        ELSE IF ~prompts_exists(fsys, expanded_vault) \/ ~prompts_is_dir(fsys, expanded_vault)
             THEN [ok |-> FALSE, path |-> NoPath]
             ELSE [ok |-> TRUE, path |-> expanded_vault]

\* ok = FALSE stands for typer.Exit(1)
validate_vault_path(fsys, env, vault_path) ==
    LET expanded_vault ==
            IF Truthy(vault_path)
            THEN absolute(expanduser(vault_path.path))
            ELSE find_vault_path(fsys, env)
    IN  IF expanded_vault = NoPath
        THEN [ok |-> FALSE, path |-> NoPath]
        ELSE IF ~prompts_exists(fsys, expanded_vault) \/ ~prompts_is_dir(fsys, expanded_vault)
             THEN [ok |-> FALSE, path |-> NoPath]
             ELSE [ok |-> TRUE, path |-> expanded_vault]


(***************************************************************************)
(* utils.py: extract_prompt_content, and the external editor               *)
(***************************************************************************)
Delimiter == <<"-", "-", "-">>

extract_prompt_content(content) ==
    LET parts == split(content, Delimiter, 2)
    IN  IF Len(parts) = 3 THEN strip(parts[3]) ELSE strip(content)

\* what the editor process may do with the file it is given: leave it, append
\* text to it (once) or delete it, and end with status zero or not
EditorOutcomes == {"ok", "ok_body", "ok_deleted", "fail", "fail_deleted"}
\* open_editor: True iff subprocess.run(..., check=True) raised nothing
open_editor(outcome) == outcome \in {"ok", "ok_body", "ok_deleted"}

\* the text the editor's user types below the front matter
EditorBody == <<"h", "i", "\n">>

\* the file, if any, the editor leaves behind
AfterEditor(docs, name, outcome) ==
    IF name \notin DOMAIN docs THEN docs
    ELSE IF outcome \in {"ok_deleted", "fail_deleted"}
         THEN [n \in DOMAIN docs \ {name} |-> docs[n]]
         ELSE IF outcome = "ok_body" /\ ~endswith(docs[name], EditorBody)
              THEN [docs EXCEPT ![name] = @ \o EditorBody]
              ELSE docs

(***************************************************************************)
(* The outcome of a command is a record: fs, the filesystem it leaves;     *)
(* exit, the exit code of the process; fault, the exception, if any, that  *)
(* no handler of the command caught (the interpreter then prints a         *)
(* traceback and ends the process with code 1); msg, the last panel the    *)
(* command printed.                                                        *)
(***************************************************************************)

(***************************************************************************)
(* cli.py: init                                                            *)
(***************************************************************************)
\* create_prompt_template(prompts_dir)
create_prompt_template(docs) == (example_prompt_md :> template_content) @@ docs

\* variant of init_command without the rmtree: mkdir(exist_ok=True) on what
\* is there
init_command_kept(fsys, vault_path) ==
    LET expanded_path == absolute(expanduser(vault_path))
        node          == fsys[expanded_path]
    IN  IF exists(fsys, expanded_path) /\ node.kind = "file"
        THEN [fs |-> fsys, exit |-> 1, fault |-> "FileExistsError",
              msg |-> "none", vault |-> expanded_path]
        ELSE [fs |-> [fsys EXCEPT ![expanded_path] =
                        DirNode(node.stray, "dir", create_prompt_template(node.docs))],
              exit |-> 0, fault |-> "none", msg |-> "vault_created",
              vault |-> expanded_path]

init_command(fsys, vault_path) ==
    LET expanded_path == absolute(expanduser(vault_path))
    IN  IF exists(fsys, expanded_path) /\ fsys[expanded_path].kind = "file"
        THEN \* shutil.rmtree on a regular file
             [fs |-> fsys, exit |-> 1, fault |-> "NotADirectoryError",
              msg |-> "none", vault |-> expanded_path]
        ELSE [fs |-> [fsys EXCEPT ![expanded_path] =
                        DirNode(FALSE, "dir", create_prompt_template(NoDocs))],
              exit |-> 0, fault |-> "none", msg |-> "vault_created",
              vault |-> expanded_path]

(***************************************************************************)
(* cli.py: add                                                             *)
(***************************************************************************)
\* datetime.now().strftime("%Y%m%d-%H%M%S"), the clock counting the seconds
\* of one day
TwoDigits(n) ==
    LET d == <<"0","1","2","3","4","5","6","7","8","9">>
    IN  <<d[(n \div 10) + 1], d[(n % 10) + 1]>>
ClockDate == <<"2","0","2","5","0","1","0","1">>
\* variant of strftime that gives the date and not the time of day
strftime_date(t) ==
    ClockDate \o <<"-">> \o TwoDigits(0) \o TwoDigits(0) \o TwoDigits(0)

strftime(t) ==
    ClockDate \o <<"-">> \o
    TwoDigits(t \div 3600) \o TwoDigits((t \div 60) % 60) \o TwoDigits(t % 60)

DotMd == <<".", "m", "d">>

\* Path.glob(prefix + "*" + suffix) on a directory of documents
glob(docs, prefix, suffix) ==
    {n \in DOMAIN docs :
        /\ Len(n) >= Len(prefix) + Len(suffix)
        /\ startswith(n, prefix)
        /\ endswith(n, suffix)}

\* the tags add works with: a single entry that holds a comma is split
split_tags(tags) ==
    IF Len(tags) = 1 /\ contains(tags[1], <<",">>)
    THEN LET parts == split(tags[1], <<",">>, -1)
         IN  [i \in 1..Len(parts) |-> strip(parts[i])]
    ELSE tags

\* the document add writes: front matter and an empty body
render(title, description, tags) ==
    LET quoted    == [i \in 1..Len(tags) |-> <<"\"">> \o strip(tags[i]) \o <<"\"">>]
        yaml_tags == join(<<",", " ">>, quoted)
    IN  <<"-","-","-","\n">> \o
        <<"t","i","t","l","e",":"," ","\"">> \o title \o <<"\"","\n">> \o
        <<"d","e","s","c","r","i","p","t","i","o","n",":"," ","\"">> \o
            description \o <<"\"","\n">> \o
        <<"t","a","g","s",":"," ","[">> \o yaml_tags \o <<"]","\n">> \o
        <<"-","-","-","\n">> \o
        <<"\n">>

add_filename(title, t) == sanitize_filename(title) \o <<"-">> \o strftime(t) \o DotMd

\* the files add warns about: prompts_dir.glob(f"{sanitize_filename(title)}-*.md")
existing_files(docs, title) == glob(docs, sanitize_filename(title) \o <<"-">>, DotMd)

\* variant of unlink that leaves the file where it is
unlink_kept(node, filename) == [ok |-> TRUE, node |-> node]

\* variant of unlink that removes the whole Prompts directory
unlink_rmtree(node, filename) ==
    [ok |-> TRUE, node |-> [node EXCEPT !.prompts = "missing", !.docs = NoDocs]]

\* prompt_path.unlink() in the vault directory node, when the editor failed:
\* ok = FALSE is FileNotFoundError
unlink(node, filename) ==
    IF filename \in DOMAIN node.docs
    THEN [ok |-> TRUE,
          node |-> [node EXCEPT !.docs = [n \in DOMAIN node.docs \ {filename} |->
                                            node.docs[n]]]]
    ELSE [ok |-> FALSE, node |-> node]

\* t: the clock; confirm: the user's answer if typer.confirm is called; editor:
\* what the editor does
add_command(fsys, env, t, title, description, tags, vault_path, confirm, editor) ==
    LET v        == validate_vault_path(fsys, env, vault_path)
        docs     == fsys[v.path].docs
        tags2    == split_tags(tags)
        filename == add_filename(title, t)
        asked    == existing_files(docs, title) # {}
        written  == (filename :> render(title, description, tags2)) @@ docs
        edited   == AfterEditor(written, filename, editor)
        removed  == unlink([fsys[v.path] EXCEPT !.docs = edited], filename)
        base     == [fs |-> fsys, exit |-> 1, fault |-> "none", msg |-> "no_vault",
                     vault |-> v.path, tags |-> tags2, file |-> <<>>, asked |-> FALSE,
                     editor |-> "none"]
    IN  IF ~v.ok
        THEN base
        ELSE IF asked /\ ~confirm
        THEN [base EXCEPT !.exit = 0, !.asked = TRUE, !.msg = "similar_exist"]
        ELSE LET ran == [base EXCEPT !.asked = asked, !.file = filename,
                                      !.editor = editor, !.msg = "creating"]
             IN  IF ~open_editor(editor)
                 THEN IF removed.ok
                      THEN [ran EXCEPT !.fs = [fsys EXCEPT ![v.path] = removed.node]]
                      ELSE [ran EXCEPT !.fs = [fsys EXCEPT ![v.path].docs = edited],
                                       !.fault = "FileNotFoundError"]
                 ELSE [ran EXCEPT !.fs = [fsys EXCEPT ![v.path].docs = edited],
                                  !.exit = 0,
                                  !.msg = IF filename \in DOMAIN edited
                                          THEN "prompt_created" ELSE "not_saved"]

(***************************************************************************)
(* cli.py: the tag filters of pick and of edit                             *)
(***************************************************************************)
TagsKey == <<"t", "a", "g", "s", ":">>
BlockItem == <<"-", " ">>

\* all(tag in file_tags for tag in tags)
all_in(tags, file_tags) == \A i \in 1..Len(tags) : tags[i] \in Range(file_tags)

\* tags: ["tag1", "tag2"] : what follows "tags:", stripped of brackets, split
\* at the commas, each piece stripped of blanks and of quotes
inline_tags(tags_str) ==
    LET inner == StripChars(tags_str, {"[", "]"})
        parts == split(inner, <<",">>, -1)
    IN  [i \in 1..Len(parts) |-> StripChars(strip(parts[i]), {"\"", "'"})]

\* - tag1
block_tag(line) ==
    LET stripped == strip(line)
    IN  StripChars(strip(SubSeq(stripped, 3, Len(stripped))), {"\"", "'"})

\* line.split("tags:", 1)[1].strip()
after_tags_key(line) == strip(split(line, TagsKey, 1)[2])

\* pick: the tags one line adds to file_tags; the block form is the elif of
\* the test for "[", under the test for "tags:"
pick_line_tags(line) ==
    LET stripped == strip(line)
        tags_str == after_tags_key(line)
    IN  IF startswith(stripped, TagsKey)
        THEN IF startswith(tags_str, <<"[">>)
             THEN inline_tags(tags_str)
             ELSE IF startswith(stripped, BlockItem)
                  THEN <<block_tag(line)>>
                  ELSE <<>>
        ELSE <<>>

\* pick: how many times the loop over the lines of one file appends the file
\* to filtered_files; the test of the tags follows every line that is not a
\* delimiter
RECURSIVE pick_scan(_, _, _, _, _)
pick_scan(lines, tags, in_yaml, file_tags, hits) ==
    IF lines = <<>>
    THEN hits
    ELSE IF strip(Head(lines)) = Delimiter
         THEN pick_scan(Tail(lines), tags, ~in_yaml, file_tags, hits)
         ELSE LET file_tags2 == IF in_yaml
                                THEN file_tags \o pick_line_tags(Head(lines))
                                ELSE file_tags
              IN  pick_scan(Tail(lines), tags, in_yaml, file_tags2,
                            IF all_in(tags, file_tags2) THEN hits + 1 ELSE hits)

\* edit: the tags one line adds to file_tags; the block form is the elif of
\* the test for "tags:"
edit_line_tags(line) ==
    LET stripped == strip(line)
        tags_str == after_tags_key(line)
    IN  IF startswith(stripped, TagsKey)
        THEN IF startswith(tags_str, <<"[">>)
             THEN inline_tags(tags_str)
             ELSE <<>>
        ELSE IF startswith(stripped, BlockItem)
             THEN <<block_tag(line)>>
             ELSE <<>>

\* edit: file_tags after the loop over the lines of one file
RECURSIVE edit_scan(_, _, _)
edit_scan(lines, in_yaml, file_tags) ==
    IF lines = <<>>
    THEN file_tags
    ELSE IF strip(Head(lines)) = Delimiter
         THEN edit_scan(Tail(lines), ~in_yaml, file_tags)
         ELSE edit_scan(Tail(lines), in_yaml,
                        IF in_yaml
                        THEN file_tags \o edit_line_tags(Head(lines))
                        ELSE file_tags)

\* n copies of x
Repeat(x, n) == [i \in 1..n |-> x]

\* pick: filtered_files, for prompt_files (a sequence of file names)
RECURSIVE pick_filter(_, _, _)
pick_filter(prompt_files, docs, tags) ==
    IF prompt_files = <<>>
    THEN <<>>
    ELSE Repeat(Head(prompt_files),
                pick_scan(splitlines(docs[Head(prompt_files)]), tags, FALSE, <<>>, 0))
         \o pick_filter(Tail(prompt_files), docs, tags)

\* edit: filtered_files, for prompt_files
edit_filter(prompt_files, docs, tags) ==
    SelectSeq(prompt_files,
              LAMBDA f : all_in(tags, edit_scan(splitlines(docs[f]), FALSE, <<>>)))

\* list(prompts_dir.glob("*.md")), in the order the directory gives
list_prompts(docs) == SetToSeq(glob(docs, <<>>, DotMd))

(***************************************************************************)
(* cli.py: pick and edit                                                   *)
(***************************************************************************)
\* What the chooser (fzf) does with the candidates it is given: it is not
\* installed, the user cancels, it prints one of the candidates, or it
\* prints a path that cannot be read.
ChooserOutcomes(cands) ==
    {[kind |-> k, file |-> <<>>] : k \in {"missing", "cancel", "unreadable"}}
    \cup {[kind |-> "select", file |-> f] : f \in Range(cands)}
NotInvoked == [kind |-> "none", file |-> <<>>]

\* variant of no_prompts that lets an empty list through
no_prompts_never(prompt_files) == FALSE

\* if not prompt_files
no_prompts(prompt_files) == prompt_files = <<>>

\* pick up to the call of the chooser: the vault, and the candidates the
\* chooser is given; go = FALSE when pick ends before that call
pick_candidates(fsys, env, vault_path, tags) ==
    LET v            == validate_vault_path(fsys, env, vault_path)
        docs         == fsys[v.path].docs
        prompt_files == list_prompts(docs)
        filtered     == IF tags # <<>>
                        THEN pick_filter(prompt_files, docs, tags)
                        ELSE prompt_files
    IN  IF ~v.ok
        THEN [go |-> FALSE, exit |-> 1, msg |-> "vault_error", vault |-> v.path,
              cands |-> <<>>]
        ELSE IF no_prompts(prompt_files)
        THEN [go |-> FALSE, exit |-> 1, msg |-> "no_prompts", vault |-> v.path,
              cands |-> <<>>]
        ELSE IF tags # <<>> /\ filtered = <<>>
        THEN [go |-> FALSE, exit |-> 1, msg |-> "no_match", vault |-> v.path,
              cands |-> <<>>]
        ELSE [go |-> TRUE, exit |-> 0, msg |-> "none", vault |-> v.path,
              cands |-> filtered]

\* c: what pick_candidates returned; chooser: what the chooser does
pick_command(fsys, c, chooser) ==
    LET docs == fsys[c.vault].docs
        base == [exit |-> c.exit, fault |-> "none", msg |-> c.msg, vault |-> c.vault,
                 chooser |-> NotInvoked, file |-> <<>>, copied |-> None]
        ran  == [base EXCEPT !.chooser = chooser]
    IN  IF ~c.go
        THEN base
        ELSE IF chooser.kind = "cancel"
        THEN [ran EXCEPT !.exit = 0]
        ELSE IF chooser.kind = "missing"
        THEN [ran EXCEPT !.exit = 1, !.msg = "fzf_not_found"]
        ELSE IF chooser.kind = "unreadable"
        THEN \* Path(selected_file).read_text()
             [ran EXCEPT !.exit = 1, !.fault = "FileNotFoundError"]
        ELSE [ran EXCEPT !.exit = 0, !.msg = "copied", !.file = chooser.file,
                         !.copied = Some(extract_prompt_content(docs[chooser.file]))]

\* edit up to the call of the chooser
edit_candidates(fsys, env, vault_path, tags) ==
    LET v            == validate_vault_path(fsys, env, vault_path)
        docs         == fsys[v.path].docs
        prompt_files == list_prompts(docs)
        filtered     == IF tags # <<>> /\ Len(tags) > 0
                        THEN edit_filter(prompt_files, docs, tags)
                        ELSE prompt_files
    IN  IF ~v.ok
        THEN [go |-> FALSE, exit |-> 1, msg |-> "vault_error", vault |-> v.path,
              cands |-> <<>>]
        ELSE IF no_prompts(prompt_files)
        THEN [go |-> FALSE, exit |-> 1, msg |-> "no_prompts", vault |-> v.path,
              cands |-> <<>>]
        ELSE IF (tags # <<>> /\ Len(tags) > 0) /\ filtered = <<>>
        THEN [go |-> FALSE, exit |-> 1, msg |-> "no_match", vault |-> v.path,
              cands |-> <<>>]
        ELSE [go |-> TRUE, exit |-> 0, msg |-> "none", vault |-> v.path,
              cands |-> filtered]

\* variant of edit_command that removes the chosen file when the editor
\* fails, as add_command does
edit_command_unlinking(fsys, c, chooser, editor) ==
    LET docs == fsys[c.vault].docs
        base == [fs |-> fsys, exit |-> c.exit, fault |-> "none", msg |-> c.msg,
                 vault |-> c.vault, chooser |-> NotInvoked, file |-> <<>>,
                 editor |-> "none"]
        ran  == [base EXCEPT !.chooser = chooser]
    IN  IF ~c.go
        THEN base
        ELSE IF chooser.kind = "cancel"
        THEN [ran EXCEPT !.exit = 0]
        ELSE IF chooser.kind = "missing"
        THEN [ran EXCEPT !.exit = 1, !.msg = "fzf_not_found"]
        ELSE LET name   == chooser.file
                 edited == IF chooser.kind = "select"
                           THEN AfterEditor(docs, name, editor)
                           ELSE docs
                 opened == [ran EXCEPT !.file = name, !.editor = editor,
                                       !.fs = [fsys EXCEPT ![c.vault].docs = edited]]
             IN  IF ~open_editor(editor)
                 THEN [opened EXCEPT !.exit = 1, !.msg = "editor_failed",
                                     !.fs = [fsys EXCEPT ![c.vault] =
                                               unlink([@ EXCEPT !.docs = edited], name).node]]
                 ELSE [opened EXCEPT !.exit = 0, !.msg = "updated"]

\* c: what edit_candidates returned; chooser, editor: what they do
edit_command(fsys, c, chooser, editor) ==
    LET docs == fsys[c.vault].docs
        base == [fs |-> fsys, exit |-> c.exit, fault |-> "none", msg |-> c.msg,
                 vault |-> c.vault, chooser |-> NotInvoked, file |-> <<>>,
                 editor |-> "none"]
        ran  == [base EXCEPT !.chooser = chooser]
    IN  IF ~c.go
        THEN base
        ELSE IF chooser.kind = "cancel"
        THEN [ran EXCEPT !.exit = 0]
        ELSE IF chooser.kind = "missing"
        THEN [ran EXCEPT !.exit = 1, !.msg = "fzf_not_found"]
        ELSE LET name   == chooser.file
                 edited == IF chooser.kind = "select"
                           THEN AfterEditor(docs, name, editor)
                           ELSE docs
                 opened == [ran EXCEPT !.file = name, !.editor = editor,
                                       !.fs = [fsys EXCEPT ![c.vault].docs = edited]]
             IN  IF ~open_editor(editor)
                 THEN [opened EXCEPT !.exit = 1, !.msg = "editor_failed"]
                 ELSE [opened EXCEPT !.exit = 0, !.msg = "updated"]

(***************************************************************************)
(* The state machine: runs of the four commands, one after the other, on   *)
(* one filesystem.                                                         *)
(***************************************************************************)
VARIABLES
    fs,        \* the filesystem: location -> node
    environ,   \* PROMPTKEEP_VAULT
    now,       \* the clock, in seconds
    last,      \* the last run: its command line and how it ended
    inited     \* the paths at which an init has succeeded

vars == <<fs, environ, now, last, inited>>

\* the command lines the model runs
Titles == {<<"A", " ", "b">>, <<"a">>}
Description == <<"d">>
TagA == <<"a">>
TagB == <<"b">>
TagC == <<"c">>
AddTagLists == {<<>>, <<TagA, TagB>>, << <<"a", ",", " ", "b">> >>}
FilterTagLists == {<<>>, <<TagA>>, <<TagC>>}
InitArgs == {LocalVault}
VaultArgs == {None, Some(LocalVault)}
AllVaultArgs == {None, Some(<<>>), Some(LocalVault), Some(DefaultVault), Some(EnvVault)}
EnvValues == {None, Some(<<>>), Some(EnvVault)}
\* what the editor does in a run of add, and in a run of edit
AddEditorOutcomes == EditorOutcomes
EditEditorOutcomes == EditorOutcomes \ {"ok_deleted", "fail_deleted"}

\* what a location may hold before the first run
Shapes ==
    { MissingNode,
      FileNode,
      DirNode(TRUE, "missing", NoDocs),
      DirNode(FALSE, "file", NoDocs),
      DirNode(FALSE, "dir", NoDocs),
      DirNode(TRUE, "dir", create_prompt_template(NoDocs)) }

Idle ==
    [cmd |-> "none", arg |-> None, vault |-> NoPath, exit |-> 0, fault |-> "none",
     msg |-> "none", existed |-> FALSE, stray |-> FALSE, tags |-> <<>>,
     file |-> <<>>, asked |-> FALSE, editor |-> "none", chooser |-> NotInvoked,
     copied |-> None]

Init ==
    /\ fs \in {f \in [Locations -> Shapes] :
                 \A p \in Locations : p # absolute(expanduser(LocalVault))
                                        => f[p] = MissingNode}
    /\ environ = None
    /\ now = 0
    /\ last = Idle
    /\ inited = {}

\* promptkeep init <vault_path>
RunInit ==
    \E vault_path \in InitArgs :
      \E r \in {init_command(fs, vault_path)} :
        /\ fs' = r.fs
        /\ inited' = IF r.exit = 0 THEN inited \cup {r.vault} ELSE inited
        /\ last' = [Idle EXCEPT !.cmd = "init", !.arg = Some(vault_path),
                                !.vault = r.vault, !.exit = r.exit,
                                !.fault = r.fault, !.msg = r.msg,
                                !.existed = exists(fs, r.vault),
                                !.stray = fs[r.vault].stray]
        /\ UNCHANGED <<environ, now>>

\* add calls typer.confirm: the vault is valid and files of a similar name exist
add_asks(fsys, env, title, vault_path) ==
    LET v == validate_vault_path(fsys, env, vault_path)
    IN  v.ok /\ existing_files(fsys[v.path].docs, title) # {}

\* promptkeep add <title> [--tags ...] [--vault ...]; the answer to the
\* confirmation and the editor are chosen only where add gets to them
RunAdd ==
    \E vault_path \in VaultArgs, title \in Titles, tags \in AddTagLists :
      \E confirm \in IF add_asks(fs, environ, title, vault_path)
                     THEN BOOLEAN ELSE {TRUE} :
        \E editor \in IF validate_vault_path(fs, environ, vault_path).ok /\ confirm
                      THEN AddEditorOutcomes ELSE {"ok"} :
          \E r \in {add_command(fs, environ, now, title, Description, tags,
                                vault_path, confirm, editor)} :
            /\ \A p \in Locations : Cardinality(DOMAIN r.fs[p].docs) <= MaxDocs
            /\ fs' = r.fs
            /\ last' = [Idle EXCEPT !.cmd = "add", !.arg = vault_path,
                                    !.vault = r.vault, !.exit = r.exit,
                                    !.fault = r.fault, !.msg = r.msg,
                                    !.tags = r.tags, !.file = r.file,
                                    !.asked = r.asked, !.editor = r.editor]
            /\ UNCHANGED <<environ, now, inited>>

\* promptkeep pick [--tags ...] [--vault ...]
RunPick ==
    \E vault_path \in VaultArgs, tags \in FilterTagLists :
      \E c \in {pick_candidates(fs, environ, vault_path, tags)} :
        \E chooser \in IF c.go THEN ChooserOutcomes(c.cands) ELSE {NotInvoked} :
          \E r \in {pick_command(fs, c, chooser)} :
            /\ last' = [Idle EXCEPT !.cmd = "pick", !.arg = vault_path,
                                    !.vault = r.vault, !.exit = r.exit,
                                    !.fault = r.fault, !.msg = r.msg,
                                    !.tags = tags, !.file = r.file,
                                    !.chooser = r.chooser, !.copied = r.copied]
            /\ UNCHANGED <<fs, environ, now, inited>>

\* promptkeep edit [--tags ...] [--vault ...]
RunEdit ==
    \E vault_path \in VaultArgs, tags \in FilterTagLists :
      \E c \in {edit_candidates(fs, environ, vault_path, tags)} :
        \E chooser \in IF c.go THEN ChooserOutcomes(c.cands) ELSE {NotInvoked} :
          \E editor \in IF chooser.kind \in {"select", "unreadable"}
                        THEN EditEditorOutcomes ELSE {"ok"} :
            \E r \in {edit_command(fs, c, chooser, editor)} :
              /\ fs' = r.fs
              /\ last' = [Idle EXCEPT !.cmd = "edit", !.arg = vault_path,
                                      !.vault = r.vault, !.exit = r.exit,
                                      !.fault = r.fault, !.msg = r.msg,
                                      !.tags = tags, !.file = r.file,
                                      !.editor = r.editor, !.chooser = r.chooser]
              /\ UNCHANGED <<environ, now, inited>>

\* a second passes
Tick ==
    /\ now < MaxTime
    /\ now' = now + 1
    /\ UNCHANGED <<fs, environ, last, inited>>

Next == RunInit \/ RunAdd \/ RunPick \/ RunEdit \/ Tick

Spec == Init /\ [][Next]_vars

(***************************************************************************)
(* The locator alone, on every filesystem of the three locations.          *)
(***************************************************************************)
InitLocator ==
    /\ fs \in [Locations -> Shapes]
    /\ environ \in EnvValues
    /\ now = 0
    /\ last = Idle
    /\ inited = {}

\* validate_vault_path(vault_path), as every command but init calls it
RunValidate ==
    \E vault_path \in AllVaultArgs :
      \E r \in {validate_vault_path(fs, environ, vault_path)} :
        /\ last' = [Idle EXCEPT !.cmd = "validate", !.arg = vault_path,
                                !.vault = r.path,
                                !.exit = IF r.ok THEN 0 ELSE 1]
        /\ UNCHANGED <<fs, environ, now, inited>>

NextLocator == RunValidate

SpecLocator == InitLocator /\ [][NextLocator]_vars

(***************************************************************************)
(* Properties.  In a state, last tells what the last run was and how it    *)
(* ended, and fs is the filesystem that run left (Tick changes neither).   *)
(***************************************************************************)

\* C1: init on a target path that already exists (there is no force option to
\* set) fails with exit code 1 and does not create or recreate the vault.
C1_InitOnExistingPathFails ==
    (last.cmd = "init" /\ last.existed)
        => (last.exit = 1 /\ last.msg # "vault_created")

\* an init that found a directory with a stray file at its target has run
C1_InitOnExistingPath ==
    last.cmd = "init" /\ last.existed /\ last.stray

\* the metadata block of content (the lines between the first line, "---",
\* and the next "---" line) has the line  title: "<title>"
HasMetadataTitle(content, title) ==
    LET lines   == splitlines(content)
        closing == {i \in 2..Len(lines) : strip(lines[i]) = Delimiter}
    IN  /\ Len(lines) >= 1
        /\ strip(lines[1]) = Delimiter
        /\ closing # {}
        /\ \E i \in 2..(Min(closing) - 1) :
              lines[i] = <<"t","i","t","l","e",":"," ","\"">> \o title \o <<"\"">>

ExamplePrompt == <<"E","x","a","m","p","l","e"," ","P","r","o","m","p","t">>

\* C2: after a successful init at P, P is a directory that holds only the
\* directory Prompts, which holds only example_prompt.md, whose metadata block
\* has the title "Example Prompt"; nothing that was under P before is left.
C2_InitLeavesOnlyTheExample ==
    (last.cmd = "init" /\ last.exit = 0 /\ last.fault = "none")
        => LET node == fs[last.vault]
           IN  /\ node.kind = "dir"
               /\ ~node.stray
               /\ node.prompts = "dir"
               /\ DOMAIN node.docs = {example_prompt_md}
               /\ HasMetadataTitle(node.docs[example_prompt_md], ExamplePrompt)

\* an init has succeeded at a directory that held a stray file
C2_InitOverStrayFile ==
    /\ last.cmd = "init" /\ last.exit = 0 /\ last.fault = "none"
    /\ last.existed /\ last.stray

\* C3: at every path P at which an init has succeeded, P/Prompts exists and is
\* a directory and validate_vault_path(P) succeeds, after every run of add,
\* pick and edit; and no run of pick or edit changes, at any location, whether
\* the directory or its Prompts entry exists.
C3_VaultInvariant ==
    [][ /\ \A P \in inited' :
              /\ prompts_is_dir(fs', P)
              /\ validate_vault_path(fs', environ', Some(P)) = [ok |-> TRUE, path |-> P]
        /\ last'.cmd \in {"pick", "edit"}
              => \A p \in Locations : /\ fs'[p].kind = fs[p].kind
                                      /\ fs'[p].prompts = fs[p].prompts ]_vars

\* an add whose editor failed has run against a vault that init created
C3_AddFailedInInitedVault ==
    /\ last.cmd = "add" /\ last.editor = "fail" /\ last.exit = 1
    /\ last.vault \in inited

\* the vault test of the specification: the directory exists and has an entry
\* Prompts that is a directory
IsValidVault(fsys, p) == exists(fsys, p) /\ prompts_is_dir(fsys, p)

C5_EnvThenDefault ==
    (last.cmd = "validate" /\ ~last.arg.given)
        => LET E == absolute(expanduser(environ.path))
               D == absolute(expanduser(DefaultVault))
           IN  IF environ.given /\ IsValidVault(fs, E)
               THEN last.exit = 0 /\ last.vault = E
               ELSE IF IsValidVault(fs, D)
                    THEN last.exit = 0 /\ last.vault = D
                    ELSE last.exit = 1

\* the required tag lists C6 is read for; the last one is  --tags ""
ClaimFilterLists ==
    {<<>>, <<TagA>>, <<TagB, TagA>>, <<TagC>>, <<TagA, TagC>>, << <<>> >>}

\* C6: after a successful add with tag list T (T as add uses it, that is
\* after it has split a single comma-separated entry), the candidates of pick
\* and of edit for a required tag list R include the new document if and only
\* if every tag of R is in T.
C6_NewDocumentFilteredByItsTags ==
    (last.cmd = "add" /\ last.exit = 0 /\ last.msg = "prompt_created")
        => \A R \in ClaimFilterLists :
             LET T  == last.tags
                 pc == pick_candidates(fs, environ, last.arg, R)
                 ec == edit_candidates(fs, environ, last.arg, R)
             IN  /\ (pc.go /\ last.file \in Range(pc.cands)) <=> (Range(R) \subseteq Range(T))
                 /\ (ec.go /\ last.file \in Range(ec.cands)) <=> (Range(R) \subseteq Range(T))

\* a successful add without tags has run: the document it wrote is among
\* the candidates of pick for the required tag ""
C6_AddedWithoutTags ==
    /\ last.cmd = "add" /\ last.exit = 0 /\ last.msg = "prompt_created"
    /\ last.tags = <<>>
    /\ last.file \in Range(pick_candidates(fs, environ, last.arg, << <<>> >>).cands)

EditorFailures == {"fail", "fail_deleted"}

\* C7, as stated: when the editor reports failure during add, add exits with
\* code 1 and the vault's Prompts directory holds exactly the documents, names
\* and contents, it held before that add.
C7_EditorFailureRestoresPrompts ==
    [][ (last'.cmd = "add" /\ last'.editor \in EditorFailures)
            => /\ last'.exit = 1
               /\ fs'[last'.vault] = fs[last'.vault] ]_vars

\* C7, amended: when the editor reports failure during add, add exits with
\* code 1; and if no document of the new file's name (same sanitized title,
\* same second) was there before that add, the vault's Prompts directory
\* holds exactly the documents, names and contents, it held before.
C7_EditorFailureRestoresUnlessSameName ==
    [][ (last'.cmd = "add" /\ last'.editor \in EditorFailures)
            => /\ last'.exit = 1
               /\ last'.file \notin DOMAIN fs[last'.vault].docs
                     => fs'[last'.vault] = fs[last'.vault] ]_vars

\* an add whose editor failed has run in a vault that earlier adds had
\* filled, one of them with a similar name
C7_AddFailedAfterOtherAdds ==
    /\ last.cmd = "add" /\ last.editor \in EditorFailures /\ last.asked
    /\ last.file \notin DOMAIN fs[last.vault].docs
    /\ Cardinality(DOMAIN fs[last.vault].docs) >= 1

\* C8: every run of init, add, pick and edit ends with exit code 0 or 1 set
\* by the command (typer.Exit, or its return); none ends in an exception that
\* no handler caught.
C8_NoUnhandledException ==
    last.exit \in {0, 1} /\ last.fault = "none"

\* an init has run on a path that is a regular file
C8_InitOnRegularFile ==
    last.cmd = "init" /\ last.existed /\ last.fault # "none"

C10_PickInEmptyVaultExitsZero ==
    (last.cmd = "pick" /\ validate_vault_path(fs, environ, last.arg).ok
        /\ list_prompts(fs[validate_vault_path(fs, environ, last.arg).path].docs) = <<>>)
        => last.exit = 0

\* a pick has run against a valid vault that holds no document
C10_PickInEmptyVault ==
    last.cmd = "pick" /\ last.msg = "no_prompts"

(***************************************************************************)
(* pick and edit on a vault that already holds documents: documents that   *)
(* add wrote (and the editor's user completed), and a document written by  *)
(* hand with the tags in block form.                                       *)
(***************************************************************************)
TitleWithDashes == <<"a", "-", "-", "-", "b">>
HandBody == EditorBody

\* a document as add writes it, with the body typed in the editor
AddedDoc(title, tags) == render(title, Description, tags) \o HandBody

\* a hand-written document, tags in block form
BlockDoc ==
    <<"-","-","-","\n">> \o
    <<"t","i","t","l","e",":"," ","\"","b","\"","\n">> \o
    <<"t","a","g","s",":","\n">> \o
    <<"-"," ","\"","a","\"","\n">> \o
    <<"-"," ","\"","b","\"","\n">> \o
    <<"-","-","-","\n">> \o
    <<"\n">> \o HandBody
block_md == <<"b", "l", "o", "c", "k", ".", "m", "d">>

\* the documents a vault may hold at the start: file name -> content
HandDocs ==
    (add_filename(<<"a">>, 0) :> AddedDoc(<<"a">>, <<TagA, TagB>>)) @@
    (add_filename(TitleWithDashes, 0) :> AddedDoc(TitleWithDashes, <<TagA>>)) @@
    (add_filename(<<"c">>, 0) :> AddedDoc(<<"c">>, <<>>)) @@
    (block_md :> BlockDoc)

\* the number of documents of a vault at the start is at most this
MaxHandDocs == 2

InitVault ==
    /\ \E names \in SUBSET DOMAIN HandDocs :
         /\ names # {}
         /\ Cardinality(names) <= MaxHandDocs
         /\ fs = [p \in Locations |->
                    IF p = absolute(expanduser(LocalVault))
                    THEN DirNode(FALSE, "dir", [n \in names |-> HandDocs[n]])
                    ELSE MissingNode]
    /\ environ = None
    /\ now = 0
    /\ last = Idle
    /\ inited = {}

NextVault == RunPick \/ RunEdit

SpecVault == InitVault /\ [][NextVault]_vars

\* the positions at which the lines of s start
LineStarts(s) == {1} \cup {i + 1 : i \in {j \in 1..Len(s) : s[j] = "\n"}}

\* the line of s that starts at position p, without its line end
LineAt(s, p) ==
    LET ends == {j \in p..Len(s) : s[j] = "\n"}
    IN  SubSeq(s, p, IF ends = {} THEN Len(s) ELSE Min(ends) - 1)

\* the positions at which the lines of s that are exactly --- start
DelimiterLines(s) == {p \in LineStarts(s) : p <= Len(s) /\ LineAt(s, p) = Delimiter}

\* the metadata block of s is delimited by two --- lines: the first line and
\* a later one
HasMetadataBlock(s) == 1 \in DelimiterLines(s) /\ Cardinality(DelimiterLines(s)) >= 2

\* where the second --- line of s starts
SecondDelimiter(s) == Min(DelimiterLines(s) \ {1})

\* the body of s: the text after the second --- line, trimmed
BodyOf(s) == strip(SubSeq(s, SecondDelimiter(s) + Len(Delimiter), Len(s)))

\* C11: a pick that succeeds on a document whose metadata block is delimited
\* by two --- lines copies exactly the body of the chosen document (the text
\* after the second --- line, trimmed) to the clipboard; a pick that ends by
\* cancellation or by an error does not write the clipboard.
C11_PickCopiesTheBody ==
    last.cmd = "pick"
        => IF last.msg = "copied"
           THEN LET content == fs[last.vault].docs[last.file]
                IN  HasMetadataBlock(content) => last.copied = Some(BodyOf(content))
           ELSE last.copied = None

\* a pick has copied the prompt of a document whose title holds ---
C11_PickedTitleWithDashes ==
    /\ last.cmd = "pick" /\ last.msg = "copied"
    /\ last.file = add_filename(TitleWithDashes, 0)
    /\ HasMetadataBlock(fs[last.vault].docs[last.file])

LastUsedKey == <<"l","a","s","t","_","u","s","e","d">>

\* C12: after a successful pick the chosen document, on disk, contains a
\* last_used field.
C12_PickWritesLastUsed ==
    (last.cmd = "pick" /\ last.msg = "copied")
        => contains(fs[last.vault].docs[last.file], LastUsedKey)

\* a pick has copied the prompt of the hand-written document
C12_PickedHandWritten ==
    last.cmd = "pick" /\ last.msg = "copied" /\ last.file = block_md

(***************************************************************************)
(* The document codec, the tag extraction and sanitize_filename, applied   *)
(* to inputs drawn from small sets.  Here last holds the input and what    *)
(* the functions return for it.                                            *)
(***************************************************************************)
\* pick: file_tags after the loop over the lines of one file
RECURSIVE pick_file_tags(_, _, _)
pick_file_tags(lines, in_yaml, file_tags) ==
    IF lines = <<>>
    THEN file_tags
    ELSE IF strip(Head(lines)) = Delimiter
         THEN pick_file_tags(Tail(lines), ~in_yaml, file_tags)
         ELSE pick_file_tags(Tail(lines), in_yaml,
                             IF in_yaml
                             THEN file_tags \o pick_line_tags(Head(lines))
                             ELSE file_tags)

CodecTitles == {<<"a">>, <<"A", " ", "b">>, TitleWithDashes}
CodecTagLists == {<<>>, <<TagA>>, <<TagA, TagB>>, <<TagB, TagA>>}
\* a body with a tags: line and a list line
TagLinesBody ==
    <<"t","a","g","s",":"," ","[","\"","c","\"","]","\n">> \o
    <<"-"," ","c","\n">>
\* a body with a tags: line and a list line between two --- lines
FencedBody ==
    <<"x","\n">> \o <<"-","-","-","\n">> \o TagLinesBody \o <<"-","-","-","\n">>
\* what is appended to the file add wrote: nothing, a body, a body with
\* blanks around it and a --- line in it, bodies with tag lines
CodecBodies ==
    { <<>>,
      HandBody,
      <<" ", "x", "\n", "-", "-", "-", "\n", "y", " ", "\n">>,
      TagLinesBody,
      FencedBody }
\* hand-written documents: the tags a, b in inline and in block form
InlineDoc == AddedDoc(<<"b">>, <<TagA, TagB>>)
CodecDocuments == {InlineDoc, BlockDoc}

Blank ==
    [cmd |-> "none", title |-> <<>>, tags |-> <<>>, body |-> <<>>,
     content |-> <<>>, out |-> <<>>, again |-> <<>>,
     pick_tags |-> <<>>, edit_tags |-> <<>>]

\* render(title, description, tags), and a body appended to it
DoRender ==
    /\ last.cmd = "codec_input"
    /\ last' = [last EXCEPT !.cmd = "render",
                            !.content = render(last.title, Description, last.tags)
                                          \o last.body]
    /\ UNCHANGED <<fs, environ, now, inited>>

\* extract_prompt_content(content)
DoExtractBody ==
    /\ last.cmd \in {"render", "document"}
    /\ last' = [last EXCEPT !.cmd = "extract_body",
                            !.out = extract_prompt_content(last.content)]
    /\ UNCHANGED <<fs, environ, now, inited>>

\* the tag extraction of pick and of edit, on content
DoExtractTags ==
    /\ last.cmd \in {"render", "document"}
    /\ last' = [last EXCEPT !.cmd = "extract_tags",
                            !.pick_tags = pick_file_tags(splitlines(last.content),
                                                         FALSE, <<>>),
                            !.edit_tags = edit_scan(splitlines(last.content),
                                                    FALSE, <<>>)]
    /\ UNCHANGED <<fs, environ, now, inited>>

\* titles given to sanitize_filename
TestPrompt == <<"T","e","s","t"," ","P","r","o","m","p","t">>
AllInvalid == <<"a","<","b",">","c",":","d","\"","e","/","f","\\","g","|","h","?","i","*","j">>
\* 101 characters, all lowercase letters or hyphens: the 100th is a hyphen
LongClean == Repeat("a", 99) \o <<"-", "b">>
\* 120 characters: A and / in turn
LongMessy == [i \in 1..120 |-> IF i % 2 = 0 THEN "/" ELSE "A"]
SanitizeInputs ==
    { <<>>, TestPrompt, AllInvalid, LongClean, LongMessy,
      <<"a", "-", "-", "b", "1">>, <<"-", "a", "-">>, <<" ", "a", " ", " ", "b", " ">>,
      Repeat("a", 100), Repeat("a", 101) }

\* sanitize_filename(title), and sanitize_filename of what it returned
DoSanitize ==
    /\ last.cmd = "sanitize_input"
    /\ last' = [last EXCEPT !.cmd = "sanitize",
                            !.out = sanitize_filename(last.title),
                            !.again = sanitize_filename(sanitize_filename(last.title))]
    /\ UNCHANGED <<fs, environ, now, inited>>

InitCodec ==
    /\ fs = [p \in Locations |-> MissingNode]
    /\ environ = None
    /\ now = 0
    /\ inited = {}
    /\ \/ \E title \in CodecTitles, tags \in CodecTagLists, body \in CodecBodies :
            last = [Blank EXCEPT !.cmd = "codec_input", !.title = title,
                                 !.tags = tags, !.body = body]
       \/ \E content \in CodecDocuments :
            last = [Blank EXCEPT !.cmd = "document", !.content = content]
       \/ \E title \in SanitizeInputs :
            last = [Blank EXCEPT !.cmd = "sanitize_input", !.title = title]

NextCodec == DoRender \/ DoExtractBody \/ DoExtractTags \/ DoSanitize

SpecCodec == InitCodec /\ [][NextCodec]_vars

\* C13: extract_prompt_content of what render returns is the empty string,
\* and of what render returns with a non-empty body B appended it is B,
\* trimmed; for every title, description and tag list.
C13_ExtractBodyOfRender ==
    (last.cmd = "extract_body" /\ last.title # <<>>)
        => last.out = strip(last.body)

\* the body of a rendered document with a body appended has been extracted
C13_ExtractedAppendedBody ==
    /\ last.cmd = "extract_body" /\ last.title # <<>>
    /\ last.body # <<>> /\ last.out = strip(last.body) /\ last.out # last.body

\* C14: the tag extraction, of pick and of edit, applied to what render
\* returns for a tag list T yields T, in the same order; for every T, the
\* empty list included.
C14_ExtractTagsOfRender ==
    (last.cmd = "extract_tags" /\ last.title # <<>> /\ last.body = <<>>)
        => (last.pick_tags = last.tags /\ last.edit_tags = last.tags)

\* the tags of a rendered document with two tags have been extracted, in order
C14_ExtractedTwoTags ==
    /\ last.cmd = "extract_tags" /\ last.title # <<>> /\ last.body = <<>>
    /\ last.tags = <<TagB, TagA>>
    /\ last.pick_tags = last.tags /\ last.edit_tags = last.tags

\* C15: the tag extraction of pick and that of edit both yield [a, b] for a
\* metadata block with  tags: ["a", "b"]  and for one with  tags:  followed
\* by the lines  - "a"  and  - "b".
C15_BothEncodingsSameTags ==
    (last.cmd = "extract_tags" /\ last.content \in CodecDocuments)
        => (last.pick_tags = <<TagA, TagB>> /\ last.edit_tags = <<TagA, TagB>>)

\* the tags of the document in block form have been extracted
C15_ExtractedBlockForm ==
    /\ last.cmd = "extract_tags" /\ last.content = BlockDoc
    /\ last.edit_tags = <<TagA, TagB>>

\* C16: for every required tag list R, the list pick hands on after its tag
\* filter, and the list edit hands on after its own, is the list of the
\* paths whose document's extracted tags hold every tag of R: each such path
\* once, in the order of the input, and no other path; with R empty it is the
\* input list.
C16_FilterIsExactSublist ==
    LET vault == Some(LocalVault)
        docs  == fs[absolute(expanduser(LocalVault))].docs
        paths == list_prompts(docs)
        has(R, file_tags) == Range(R) \subseteq Range(file_tags)
    IN  (validate_vault_path(fs, environ, vault).ok /\ paths # <<>>)
        => \A R \in FilterTagLists :
             /\ pick_candidates(fs, environ, vault, R).cands
                  = SelectSeq(paths, LAMBDA f :
                        has(R, pick_file_tags(splitlines(docs[f]), FALSE, <<>>)))
             /\ edit_candidates(fs, environ, vault, R).cands
                  = SelectSeq(paths, LAMBDA f :
                        has(R, edit_scan(splitlines(docs[f]), FALSE, <<>>)))

\* a pick with a required tag has run: its candidates list a path twice
C16_PickListsPathTwice ==
    /\ last.cmd = "pick" /\ last.tags = <<TagA>> /\ last.msg = "copied"
    /\ LET cands == pick_candidates(fs, environ, last.arg, last.tags).cands
       IN  Len(cands) > Cardinality(Range(cands))

\* C17: a successful add of a title gets a file name different from the name
\* an add of the same title gets at any other time; and when no document of
\* that name is there (no add of the title within the same second), it
\* increases the number of documents in Prompts by exactly one and leaves
\* every document that was there unchanged.
C17_AddsAtDifferentTimes ==
    [][ (last'.cmd = "add" /\ last'.msg = "prompt_created")
            => LET before == fs[last'.vault].docs
                   after  == fs'[last'.vault].docs
               IN  /\ \A title \in Titles, t \in 0..MaxTime :
                         (add_filename(title, now') = last'.file /\ t # now')
                            => add_filename(title, t) # last'.file
                   /\ last'.file \notin DOMAIN before
                         => /\ Cardinality(DOMAIN after) = Cardinality(DOMAIN before) + 1
                            /\ \A n \in DOMAIN before :
                                  n \in DOMAIN after /\ after[n] = before[n] ]_vars

\* a second add of a title has succeeded, at another time than the first
C17_SecondAddOfTitle ==
    /\ last.cmd = "add" /\ last.msg = "prompt_created" /\ last.asked
    /\ \E title \in Titles, t \in 0..MaxTime :
          /\ t # now
          /\ add_filename(title, now) = last.file
          /\ add_filename(title, t) \in DOMAIN fs[last.vault].docs

\* the front matter of s: the text up to the end of the second --- line
FrontMatter(s) ==
    IF HasMetadataBlock(s)
    THEN SubSeq(s, 1, SecondDelimiter(s) + Len(Delimiter) - 1)
    ELSE <<>>

\* C18: a run of edit removes no document, adds none, and changes no front
\* matter; it leaves every document but the chosen one as it was; and when the
\* editor fails it exits with code 1 and the chosen file is there with the
\* content it had.
C18_EditKeepsDocuments ==
    [][ last'.cmd = "edit"
            => /\ \/ fs' = fs
                  \/ \A p \in Locations :
                       /\ DOMAIN fs'[p].docs = DOMAIN fs[p].docs
                       /\ \A n \in DOMAIN fs[p].docs :
                             \/ fs'[p].docs[n] = fs[p].docs[n]
                             \/ /\ p = last'.vault /\ n = last'.file
                                /\ FrontMatter(fs'[p].docs[n]) = FrontMatter(fs[p].docs[n])
               /\ last'.editor = "fail" => (last'.exit = 1 /\ fs' = fs) ]_vars

\* an edit whose editor failed has run on a document of the vault
C18_EditFailedOnDocument ==
    /\ last.cmd = "edit" /\ last.editor = "fail" /\ last.exit = 1
    /\ last.file \in DOMAIN fs[last.vault].docs

\* the characters of a name that sanitize_filename has nothing to change in
CleanChars == Range(LowerCase) \cup {"0", "1", "2", "3", "4", "5", "6", "7", "8", "9", "-"}

\* C19: for a title made only of lowercase letters, digits and hyphens,
\* sanitizing the sanitized name gives the sanitized name again.
C19_SanitizeIdempotent ==
    (last.cmd = "sanitize" /\ Range(last.title) \subseteq CleanChars)
        => last.again = last.out

\* a title of lowercase letters and a hyphen, longer than the limit, has
\* been sanitized
C19_SanitizedLongClean ==
    /\ last.cmd = "sanitize" /\ last.title = LongClean
    /\ Range(last.title) \subseteq CleanChars

AskedTitles == Titles \cup {ExamplePrompt}

\* a prompt with this title is in docs: a document whose metadata block
\* holds the line title: "<title>"
TitleExists(docs, title) == \E n \in DOMAIN docs : HasMetadataTitle(docs[n], title)

\* C21: in every state with a valid vault and for every title, add asks for
\* confirmation when, and only when, a prompt with that title is in the
\* vault; and when it asks and the answer is no, add exits with code 0 and
\* leaves the Prompts directory as it was.
C21_AddAsksOnSameTitle ==
    \A vault_path \in VaultArgs, title \in AskedTitles :
        LET v    == validate_vault_path(fs, environ, vault_path)
            yes  == add_command(fs, environ, now, title, Description, <<>>,
                                vault_path, TRUE, "ok")
            no   == add_command(fs, environ, now, title, Description, <<>>,
                                vault_path, FALSE, "ok")
        IN  v.ok =>
              /\ yes.asked <=> TitleExists(fs[v.path].docs, title)
              /\ no.asked <=> TitleExists(fs[v.path].docs, title)
              /\ no.asked => (no.exit = 0 /\ no.fs = fs)

\* an add of the title a has asked for confirmation and gone on, in a vault
\* where no other document has the title a
C21_AskedWithoutSameTitle ==
    /\ last.cmd = "add" /\ last.asked /\ last.msg = "prompt_created"
    /\ last.file = add_filename(<<"a">>, now)
    /\ \A n \in DOMAIN fs[last.vault].docs \ {last.file} :
          ~HasMetadataTitle(fs[last.vault].docs[n], <<"a">>)

\* C22: in every state, for every --vault argument and every required tag
\* list, pick and edit end their listing and filtering phase alike: both go
\* on to the chooser with the same candidate list, or both exit before the
\* chooser with the same exit code.
C22_PickAndEditListAlike ==
    \A vault_path \in VaultArgs, R \in FilterTagLists :
        LET p == pick_candidates(fs, environ, vault_path, R)
            e == edit_candidates(fs, environ, vault_path, R)
        IN  /\ p.go = e.go
            /\ p.go => p.cands = e.cands
            /\ ~p.go => p.exit = e.exit

\* an edit with a required tag has called the chooser in a vault where pick,
\* with the same arguments, exits before the chooser
C22_EditChoosesWherePickStops ==
    /\ last.cmd = "edit" /\ last.tags = <<TagA>> /\ last.chooser # NotInvoked
    /\ ~pick_candidates(fs, environ, last.arg, last.tags).go

\* C23: the tags pick and edit extract from a document that render wrote,
\* with any body appended, are the tags they extract from the same document
\* with an empty body; and for every required tag list the document with the
\* body passes the tag filter of pick, and of edit, exactly when the document
\* with the empty body does.
C23_BodyDoesNotChangeTags ==
    (last.cmd = "extract_tags" /\ last.title # <<>>)
        => LET bare  == render(last.title, Description, last.tags)
               f     == add_filename(last.title, 0)
               with  == f :> last.content
               empty == f :> bare
           IN  /\ last.pick_tags = pick_file_tags(splitlines(bare), FALSE, <<>>)
               /\ last.edit_tags = edit_scan(splitlines(bare), FALSE, <<>>)
               /\ \A R \in FilterTagLists \ {<<>>} :
                     /\ (pick_filter(<<f>>, with, R) = <<>>)
                           <=> (pick_filter(<<f>>, empty, R) = <<>>)
                     /\ (edit_filter(<<f>>, with, R) = <<>>)
                           <=> (edit_filter(<<f>>, empty, R) = <<>>)

\* the tags of a document with the tag a and a body that has tag lines
\* between --- lines have been extracted
C23_ExtractedFencedBody ==
    /\ last.cmd = "extract_tags" /\ last.tags = <<TagA>> /\ last.body = FencedBody
    /\ last.content = render(last.title, Description, last.tags) \o FencedBody

=============================================================================
